---- MODULE Spec2Model ----
(***************************************************************************)
(* Model of operators/scraper.py: the ArticleScraper engine.  One engine,  *)
(* its browser pool, the asyncio coroutines that call scrape_articles and  *)
(* the per-article tasks asyncio.gather runs for them, and close().        *)
(* A step of the model is the code a coroutine runs between two awaits;    *)
(* the outcome of each awaited Playwright call (connect, new_context,      *)
(* new_page, goto, page.close, close) is chosen by the environment.        *)
(* async_playwright().start() is taken to succeed.                         *)
(***************************************************************************)
EXTENDS Integers, Sequences, FiniteSets, Bags, TLC

\* ---------------------------------------------------------------- bounds
MaxSubmitted == 2     \* Spec: articles submitted over all calls
LifeSubmitted == 2    \* SpecLife: articles submitted, one per call
MaxCloses == 2        \* SpecLife: close() calls
MaxCloseFailures == 1 \* SpecLife: resources whose close() raises
ConcSubmitted == 2    \* SpecConc: articles submitted over all calls
FairSubmitted == 3    \* SpecFair: articles submitted over all calls

\* ------------------------------------------------------ program constants
browser_pool_size == 2   \* ArticleScraper.__init__ default

Callers == {1, 2}        \* coroutines that may call scrape_articles
Absent == "absent"       \* a key a dict does not hold
NoCtx == 0               \* a task that holds no context yet
NoPage == [kind |-> "none"]   \* no document under extraction
NoOutput == [done |-> FALSE]  \* the extractor has not returned yet
None == <<>>                  \* an Optional holds None, or <<v>> for a value v

VARIABLES
    browser_pool,      \* self.browser_pool: browser ids
    browser_contexts,  \* self.browser_contexts: each context as the id of its browser
    playwright,        \* self.playwright: 0 for None, else the runtime's id
    session_active,    \* self.session_active
    session_lock,      \* self._session_lock: 0 when free, else the holder
    stats,             \* self.stats
    nextId,            \* browsers connected so far; their ids are 1..nextId
    dead,              \* browsers whose connection was lost
    closed,            \* resources on which a close() call returned normally
    closeCalls,        \* bag: close()/stop() invocations per resource
    closes,            \* close() calls made on the engine
    closeOutcome,      \* how the latest close() ended
    submitted,         \* articles submitted to scrape_articles so far
    pc,                \* where each caller's scrape_articles call stands
    initI,             \* loop variable i of _initialize_browser_pool
    articles,          \* the list each caller passed (dicts are mutable)
    sem,               \* the call's asyncio.Semaphore: free permits
    tasks,             \* the call's tasks, in input order
    results,           \* what asyncio.gather has collected so far
    outcome,           \* how the caller's latest call ended
    returned,          \* the list the latest call returned
    initDone,          \* init bodies that ran to success
    openPages,         \* pages opened by tasks on which no close() returned
    closeFailed,       \* page.close() calls that raised
    reconnects,        \* _reconnect_browser calls made on the engine
    seenUrls,          \* the rows of the tracker's articles table, for one source
    reportedNew,       \* URLs filter_new_articles has returned as new
    delivered,         \* URLs fetch_articles has returned to the pipeline
    runs,              \* fetch_articles calls made so far
    initBase,          \* nextId when the running (or last) init body began
    lastCall,          \* the method last called on the engine
    page,              \* the document or request a page function is run on
    extracted          \* what the function returned for it

vars == <<browser_pool, browser_contexts, playwright, session_active,
          session_lock, stats, nextId, dead, closed, closeCalls, closes,
          closeOutcome, submitted, pc, initI, articles, sem, tasks,
          results, outcome, returned, initDone, openPages, closeFailed,
          reconnects, seenUrls, reportedNew, delivered, runs, initBase,
          lastCall, page, extracted>>

poolVars == <<browser_pool, browser_contexts, playwright, session_active,
              session_lock, nextId, initDone, initBase>>
closeVars == <<closed, closeCalls, closes, closeOutcome>>
pageVars == <<page, extracted>>
trackerVars == <<seenUrls, reportedNew, delivered, runs>>
engineVars == <<poolVars, closeVars, stats, dead, submitted, pc, initI,
                articles, sem, tasks, results, outcome, returned, openPages,
                closeFailed, reconnects, trackerVars, lastCall>>

\* ----------------------------------------------------------------- dicts
\* A request as the caller builds it: a link (possibly empty) and a
\* passthrough title; the keys the scraper adds are absent.
Request(i, hasUrl) ==
    [link |-> IF hasUrl THEN "url" ELSE "", title |-> i,
     full_content |-> Absent, hero_image |-> Absent,
     scrape_success |-> Absent, scrape_error |-> Absent]

Pending == [pending |-> TRUE]
Raised(e) == [exception |-> e]
IsException(r) == DOMAIN r = {"exception"}

\* A failure branch that sets the flag and the error and leaves what the
\* extractors wrote.
FailedUpdateKeepsExtracted(d, err) ==
    [d EXCEPT !.scrape_success = "False", !.scrape_error = err]

\* result.update({...}) of the two except clauses and of gather's
\* exception branch: the failed-result keys.
FailedUpdate(d, err) ==
    [d EXCEPT !.full_content = "", !.hero_image = "None",
              !.scrape_success = "False", !.scrape_error = err]

Truthy(v) == v \notin {Absent, "None", "False", ""}

Browser(b) == <<"browser", b>>
Context(b) == <<"context", b>>
Runtime(k) == <<"playwright", k>>

\* A context can open pages only while its browser is connected and
\* neither was closed.
Usable(b) == /\ b \notin dead
             /\ Browser(b) \notin closed
             /\ Context(b) \notin closed

\* ------------------------------------------------------------------ init
Init ==
    /\ browser_pool = <<>>
    /\ browser_contexts = <<>>
    /\ playwright = 0
    /\ session_active = FALSE
    /\ session_lock = 0
    /\ stats = [total_scraped |-> 0, successful |-> 0, failed |-> 0,
                browser_reuses |-> 0, hero_images_found |-> 0,
                images_extracted |-> 0]
    /\ nextId = 0
    /\ dead = {}
    /\ closed = {}
    /\ closeCalls = EmptyBag
    /\ closes = 0
    /\ closeOutcome = "none"
    /\ submitted = 0
    /\ pc = [c \in Callers |-> "idle"]
    /\ initI = [c \in Callers |-> 0]
    /\ articles = [c \in Callers |-> <<>>]
    /\ sem = [c \in Callers |-> 0]
    /\ tasks = [c \in Callers |-> <<>>]
    /\ results = [c \in Callers |-> <<>>]
    /\ outcome = [c \in Callers |-> "none"]
    /\ returned = [c \in Callers |-> <<>>]
    /\ initDone = 0
    /\ openPages = 0
    /\ closeFailed = 0
    /\ reconnects = 0
    /\ seenUrls = {}
    /\ reportedNew = {}
    /\ delivered = {}
    /\ runs = 0
    /\ initBase = 0
    /\ lastCall = "none"
    /\ page = NoPage
    /\ extracted = NoOutput

\* ------------------------------------------------- scrape_articles: entry
\* asyncio.Semaphore(self.browser_pool_size)
GateSize == browser_pool_size

\* browser_index = i % len(self.browser_pool), i counted from 0
SlotFor(i, poolLen) == i % poolLen

NewTask(slot) ==
    [pc |-> "queued", browser_index |-> slot, ctx |-> NoCtx,
     result |-> Pending, raising |-> "none"]

\* Lines 244-254: the semaphore, one task per article, then gather.
Dispatch(c, arts, pool) ==
    /\ sem' = [sem EXCEPT ![c] = GateSize]
    /\ tasks' = [tasks EXCEPT ![c] =
                    [i \in 1..Len(arts) |-> NewTask(SlotFor(i - 1, Len(pool)))]]
    /\ results' = [results EXCEPT ![c] = [i \in 1..Len(arts) |-> Pending]]
    /\ pc' = [pc EXCEPT ![c] = "gather"]

\* if not articles: return []
ScrapeEmpty(c) ==
    /\ pc[c] = "idle"
    /\ articles' = [articles EXCEPT ![c] = <<>>]
    /\ outcome' = [outcome EXCEPT ![c] = "returned"]
    /\ returned' = [returned EXCEPT ![c] = <<>>]
    /\ lastCall' = "scrape_articles"
    /\ UNCHANGED <<pageVars, trackerVars, reconnects, closeFailed,
                   poolVars, closeVars, stats, dead, openPages, submitted, pc,
                   initI, sem, tasks, results>>

\* scrape_articles with a non-empty batch, up to its first await: the
\* unlocked check of _initialize_browser_pool, the lock, the locked check.
ScrapeArticles(c, n, maxSubmitted) ==
    /\ pc[c] = "idle"
    /\ submitted + n <= maxSubmitted
    /\ submitted' = submitted + n
    /\ \E hasUrl \in [1..n -> BOOLEAN] :
          articles' = [articles EXCEPT ![c] =
                          [i \in 1..n |-> Request(i, hasUrl[i])]]
    /\ outcome' = [outcome EXCEPT ![c] = "running"]
    /\ returned' = [returned EXCEPT ![c] = <<>>]
    /\ IF session_active
         THEN /\ Dispatch(c, articles'[c], browser_pool)
              /\ UNCHANGED session_lock
         ELSE /\ IF session_lock = 0
                   THEN /\ session_lock' = c
                        /\ pc' = [pc EXCEPT ![c] = "starting"]
                   ELSE /\ pc' = [pc EXCEPT ![c] = "lockwait"]
                        /\ UNCHANGED session_lock
              /\ UNCHANGED <<sem, tasks, results>>
    /\ lastCall' = "scrape_articles"
    /\ UNCHANGED <<pageVars, trackerVars, reconnects, closeFailed,
                   browser_pool, browser_contexts, playwright, session_active,
                   nextId, initDone, initBase, closeVars, stats, dead,
                   openPages, initI>>

\* An initialization that does not look at session_active again once it
\* holds the lock.
ActiveUnderLockSkipped == FALSE

\* "if self.session_active: return" inside "async with self._session_lock"
ActiveUnderLock == session_active

\* The lock is handed to a waiting caller, which checks session_active
\* again under the lock.
LockAcquired(c) ==
    /\ pc[c] = "lockwait"
    /\ session_lock = 0
    /\ IF ActiveUnderLock
         THEN /\ Dispatch(c, articles[c], browser_pool)
              /\ UNCHANGED session_lock
         ELSE /\ session_lock' = c
              /\ pc' = [pc EXCEPT ![c] = "starting"]
              /\ UNCHANGED <<sem, tasks, results>>
    /\ UNCHANGED <<pageVars, trackerVars, reconnects, closeFailed,
                   browser_pool, browser_contexts, playwright, session_active,
                   nextId, initDone, initBase, closeVars, lastCall, stats,
                   dead, openPages, submitted,
                   initI, articles, outcome, returned>>

\* self.playwright = await async_playwright().start()
PlaywrightStart(c) ==
    /\ pc[c] = "starting"
    /\ playwright' = playwright + 1
    /\ initBase' = nextId
    /\ initI' = [initI EXCEPT ![c] = 0]
    /\ pc' = [pc EXCEPT ![c] = "connect"]
    /\ UNCHANGED <<pageVars, trackerVars, reconnects, closeFailed,
                   browser_pool, browser_contexts, session_active, session_lock,
                   nextId, initDone, closeVars, lastCall, stats, dead,
                   openPages, submitted,
                   articles, sem, tasks, results, outcome, returned>>

\* The pool counts as initialized when the loop leaves any browser in it.
PoolReady(pool) == pool # <<>>

\* End of one iteration of the for loop of _initialize_browser_pool and,
\* after the last one, lines 141-145 and the return into scrape_articles.
LoopNext(c, pool) ==
    IF initI[c] + 1 < browser_pool_size
      THEN /\ initI' = [initI EXCEPT ![c] = initI[c] + 1]
           /\ pc' = [pc EXCEPT ![c] = "connect"]
           /\ UNCHANGED <<session_active, session_lock, initDone, outcome,
                          sem, tasks, results>>
      ELSE /\ initI' = [initI EXCEPT ![c] = 0]
           /\ session_lock' = 0
           /\ IF PoolReady(pool)
                THEN /\ session_active' = TRUE
                     /\ initDone' = initDone + 1
                     /\ Dispatch(c, articles[c], pool)
                     /\ UNCHANGED outcome
                ELSE /\ outcome' = [outcome EXCEPT ![c] = "raised"]
                     /\ pc' = [pc EXCEPT ![c] = "idle"]
                     /\ UNCHANGED <<session_active, initDone, sem, tasks,
                                    results>>

\* browser = await self._create_browser(...): a browser, or None when the
\* connection fails.
CreateBrowser(c, ok) ==
    /\ pc[c] = "connect"
    /\ IF ok
         THEN /\ nextId' = nextId + 1
              /\ browser_pool' = Append(browser_pool, nextId + 1)
              /\ pc' = [pc EXCEPT ![c] = "context"]
              /\ UNCHANGED <<initI, session_active, session_lock, initDone,
                             outcome, sem, tasks, results>>
         ELSE /\ LoopNext(c, browser_pool)
              /\ UNCHANGED <<nextId, browser_pool>>
    /\ UNCHANGED <<pageVars, trackerVars, reconnects, closeFailed,
                   browser_contexts, playwright, initBase, closeVars,
                   lastCall, stats, dead, openPages, submitted,
                   articles, returned>>

\* context = await self._create_context(browser); a failure is caught by
\* the loop's except clause.
CreateContext(c, ok) ==
    /\ pc[c] = "context"
    /\ browser_contexts' = IF ok THEN Append(browser_contexts, nextId)
                                 ELSE browser_contexts
    /\ LoopNext(c, browser_pool)
    /\ UNCHANGED <<pageVars, trackerVars, reconnects, closeFailed,
                   browser_pool, playwright, nextId, initBase, closeVars,
                   lastCall,
                   stats, dead, openPages, submitted, articles, returned>>

\* ------------------------------------------------------------- the tasks
\* A gather that collected outcomes in completion order.
GatherStoreByCompletion(res, i, r) ==
    LET k == CHOOSE k \in DOMAIN res :
                 /\ res[k] = Pending
                 /\ \A j \in 1..(k - 1) : res[j] # Pending
    IN  [res EXCEPT ![k] = r]

\* asyncio.gather keeps each task's outcome at the task's own position.
GatherStore(res, i, r) == [res EXCEPT ![i] = r]

\* A task that is queued again when its navigation timed out.
TaskEndsRetrying(c, i, r, permits) ==
    IF ~IsException(r) /\ r.scrape_error = "Timeout"
      THEN /\ tasks' = [tasks EXCEPT ![c][i] = NewTask(tasks[c][i].browser_index)]
           /\ sem' = [sem EXCEPT ![c] = permits]
           /\ UNCHANGED results
      ELSE /\ tasks' = [tasks EXCEPT ![c][i].pc = "done",
                                     ![c][i].result = Pending,
                                     ![c][i].raising = "none"]
           /\ results' = [results EXCEPT ![c] = GatherStore(results[c], i, r)]
           /\ sem' = [sem EXCEPT ![c] = permits]

\* A task ends: its outcome goes to gather and, having entered the
\* "async with semaphore" block, it gives its permit back.
TaskEnds(c, i, r, permits) ==
    /\ tasks' = [tasks EXCEPT ![c][i].pc = "done", ![c][i].result = Pending,
                              ![c][i].raising = "none"]
    /\ results' = [results EXCEPT ![c] = GatherStore(results[c], i, r)]
    /\ sem' = [sem EXCEPT ![c] = permits]

\* A gate that gets its permit back from the tasks that succeed only.
ReleaseOnSuccess(permits, r) ==
    IF Truthy(r.scrape_success) THEN permits + 1 ELSE permits

\* __aexit__ of "async with semaphore": the permit goes back whichever
\* way the block is left, with the result r or with an exception.
Release(permits, r) == permits + 1

\* if browser_index >= len(self.browser_pool): browser_index = 0
ClampIndex(bi, pool) == IF bi >= Len(pool) THEN 0 ELSE bi

\* _scrape_with_semaphore and _scrape_single_article up to the first await:
\* acquire the semaphore (waiters are served first come, first served), the
\* no-URL return, result = article.copy(), the context lookup.
TaskStart(c, i) ==
    /\ pc[c] = "gather"
    /\ i \in DOMAIN tasks[c]
    /\ tasks[c][i].pc = "queued"
    /\ sem[c] > 0
    /\ \A j \in 1..(i - 1) : tasks[c][j].pc # "queued"
    /\ LET a  == articles[c][i]
           bi == ClampIndex(tasks[c][i].browser_index, browser_pool)
       IN  IF a.link = ""
             THEN LET m == [a EXCEPT !.scrape_success = "False",
                                     !.scrape_error = "No URL provided"]
                  IN  /\ articles' = [articles EXCEPT ![c][i] = m]
                      /\ TaskEnds(c, i, m, sem[c])
             ELSE /\ UNCHANGED articles
                  /\ IF bi + 1 > Len(browser_contexts)
                       THEN TaskEnds(c, i, Raised("IndexError"), sem[c])
                       ELSE /\ tasks' = [tasks EXCEPT
                                          ![c][i].pc = "opening",
                                          ![c][i].browser_index = bi,
                                          ![c][i].ctx = browser_contexts[bi + 1],
                                          ![c][i].result = a]
                            /\ sem' = [sem EXCEPT ![c] = sem[c] - 1]
                            /\ UNCHANGED results
    /\ UNCHANGED <<pageVars, trackerVars, reconnects, closeFailed,
                   poolVars, closeVars, lastCall, stats, dead, openPages,
                   submitted, pc,
                   initI, outcome, returned>>

\* page = await context.new_page(); a failure goes to "except Exception".
TaskNewPage(c, i, ok) ==
    /\ pc[c] = "gather"
    /\ i \in DOMAIN tasks[c]
    /\ tasks[c][i].pc = "opening"
    /\ ok => Usable(tasks[c][i].ctx)
    /\ IF ok
         THEN /\ tasks' = [tasks EXCEPT ![c][i].pc = "loading"]
              /\ openPages' = openPages + 1
              /\ UNCHANGED <<results, sem>>
         ELSE /\ LET r == FailedUpdate(tasks[c][i].result, "NewPageError")
                 IN  TaskEnds(c, i, r, Release(sem[c], r))
              /\ UNCHANGED openPages
    /\ UNCHANGED <<pageVars, trackerVars, reconnects, closeFailed,
                   poolVars, closeVars, lastCall, stats, dead, submitted, pc,
                   initI,
                   articles, outcome, returned>>

\* "if content and len(content.strip()) > 100" and the two result.update
\* calls of lines 356-381.
Extracted(result, content, hero) ==
    IF content = "long"
      THEN [result EXCEPT !.full_content = "text", !.hero_image = hero,
                          !.scrape_success = "True"]
      ELSE [result EXCEPT !.full_content = "", !.hero_image = hero,
                          !.scrape_success = "False",
                          !.scrape_error = "Content too short or empty"]

\* The body of the inner try, from _configure_page to the end of the
\* if/else: page.goto times out, fails, loses the browser connection, or
\* loads and the three extractors run, _extract_images adding the number
\* of images it returns to the stats.  What follows is "finally".
TaskLoad(c, i, o, content, hero, images) ==
    /\ pc[c] = "gather"
    /\ i \in DOMAIN tasks[c]
    /\ tasks[c][i].pc = "loading"
    /\ ~Usable(tasks[c][i].ctx) => o # "loaded"
    /\ IF o = "loaded"
         THEN /\ tasks' = [tasks EXCEPT
                            ![c][i].pc = "closing",
                            ![c][i].result = Extracted(tasks[c][i].result,
                                                       content, hero)]
              /\ stats' = [stats EXCEPT
                            !.images_extracted = @ + images,
                            !.hero_images_found =
                                IF content = "long" /\ Truthy(hero)
                                  THEN @ + 1 ELSE @]
              /\ UNCHANGED dead
         ELSE /\ tasks' = [tasks EXCEPT ![c][i].pc = "closing",
                                        ![c][i].raising = o]
              /\ dead' = IF o = "ConnectionError"
                           THEN dead \cup {tasks[c][i].ctx} ELSE dead
              /\ UNCHANGED stats
    /\ UNCHANGED <<pageVars, trackerVars, reconnects, closeFailed,
                   poolVars, closeVars, lastCall, openPages, submitted, pc,
                   initI, articles,
                   sem, results, outcome, returned>>

\* The except clauses of lines 386-404: PlaywrightTimeoutError gives
\* "Timeout", any other exception its own text.
Caught(result, exc) == FailedUpdate(result, exc)

\* A page that is closed only when the try body ended without exception.
ClosesPageOnSuccessOnly(raising) == raising = "none"

\* "finally:" runs page.close() whether or not an exception is in flight.
ClosesPage(raising) == TRUE

\* finally: await page.close().  An exception of close() replaces the one
\* in flight and is caught by "except Exception".
TaskClosePage(c, i, ok) ==
    /\ pc[c] = "gather"
    /\ i \in DOMAIN tasks[c]
    /\ tasks[c][i].pc = "closing"
    /\ LET t == tasks[c][i]
           called == ClosesPage(t.raising)
           r == IF called /\ ~ok THEN Caught(t.result, "PageCloseError")
                ELSE IF t.raising # "none" THEN Caught(t.result, t.raising)
                ELSE t.result
       IN  /\ TaskEnds(c, i, r, Release(sem[c], r))
           /\ openPages' = IF called /\ ok THEN openPages - 1 ELSE openPages
           /\ closeFailed' = IF called /\ ~ok THEN closeFailed + 1
                                              ELSE closeFailed
    /\ UNCHANGED <<pageVars, trackerVars, reconnects, poolVars, closeVars, lastCall, stats, dead,
                   submitted, pc, initI, articles, outcome, returned>>

\* ------------------------------------------------ scrape_articles: the end
\* A gather called without return_exceptions.
ReturnExceptionsOff == FALSE

\* asyncio.gather(*tasks, return_exceptions=True)
ReturnExceptions == TRUE

\* With return_exceptions, gather hands exceptions back as values; without
\* it, the first one would be raised into scrape_articles.
GatherRaises(res) ==
    /\ ~ReturnExceptions
    /\ \E i \in DOMAIN res : IsException(res[i])

\* Lines 256-271: an exception becomes a failed copy of its article.
ProcessResults(res, arts) ==
    [i \in DOMAIN res |->
        IF IsException(res[i]) THEN FailedUpdate(arts[i], res[i].exception)
                               ELSE res[i]]

Succeeded(a) == Truthy(a.scrape_success)
NotSucceeded(a) == ~Truthy(a.scrape_success)

\* An update whose total counts the successes only.
UpdateStatsSuccessesOnly(st, scraped, n) ==
    [st EXCEPT !.total_scraped = @ + Cardinality({i \in DOMAIN scraped :
                                                  Succeeded(scraped[i])}),
               !.successful = @ + Cardinality({i \in DOMAIN scraped :
                                               Succeeded(scraped[i])}),
               !.failed = @ + Cardinality({i \in DOMAIN scraped :
                                           NotSucceeded(scraped[i])}),
               !.browser_reuses = @ + (IF n > browser_pool_size
                                         THEN n - browser_pool_size ELSE 0)]

\* Lines 273-279.
UpdateStats(st, scraped, n) ==
    [st EXCEPT !.total_scraped = @ + n,
               !.successful = @ + Cardinality({i \in DOMAIN scraped :
                                               Succeeded(scraped[i])}),
               !.failed = @ + Cardinality({i \in DOMAIN scraped :
                                           NotSucceeded(scraped[i])}),
               !.browser_reuses = @ + (IF n > browser_pool_size
                                         THEN n - browser_pool_size ELSE 0)]

\* gather returns once every task has ended; the rest of scrape_articles
\* runs without an await.
Finish(c) ==
    /\ pc[c] = "gather"
    /\ \A i \in DOMAIN tasks[c] : tasks[c][i].pc = "done"
    /\ IF GatherRaises(results[c])
         THEN /\ outcome' = [outcome EXCEPT ![c] = "raised"]
              /\ UNCHANGED <<returned, stats>>
         ELSE LET scraped == ProcessResults(results[c], articles[c])
              IN  /\ returned' = [returned EXCEPT ![c] = scraped]
                  /\ stats' = UpdateStats(stats, scraped, Len(articles[c]))
                  /\ outcome' = [outcome EXCEPT ![c] = "returned"]
    /\ pc' = [pc EXCEPT ![c] = "idle"]
    /\ tasks' = [tasks EXCEPT ![c] = <<>>]
    /\ results' = [results EXCEPT ![c] = <<>>]
    /\ sem' = [sem EXCEPT ![c] = 0]
    /\ UNCHANGED <<pageVars, trackerVars, reconnects, closeFailed,
                   poolVars, closeVars, lastCall, dead, openPages, submitted,
                   initI,
                   articles>>

\* ----------------------------------------------------------------- close
\* for context in self.browser_contexts / for browser in self.browser_pool
PoolContexts == [k \in DOMAIN browser_contexts |-> Context(browser_contexts[k])]
PoolBrowsers == [k \in DOMAIN browser_pool |-> Browser(browser_pool[k])]
Range(seq) == {seq[k] : k \in DOMAIN seq}

\* A loop whose first failing close() propagates.
CloseLoopAbort(seq, failing) ==
    IF \E k \in DOMAIN seq : seq[k] \in failing
      THEN LET f == CHOOSE k \in DOMAIN seq :
                        /\ seq[k] \in failing
                        /\ \A j \in 1..(k - 1) : seq[j] \notin failing
           IN  [attempted |-> {seq[k] : k \in 1..f}, raised |-> TRUE]
      ELSE [attempted |-> Range(seq), raised |-> FALSE]

\* One of close()'s loops: every element is closed inside its own
\* try/except, so a failing close() neither ends the loop nor leaves it.
CloseLoop(seq, failing) == [attempted |-> Range(seq), raised |-> FALSE]

\* A loop that is not reached because an earlier one raised.
NotAttempted == [attempted |-> {}, raised |-> TRUE]

\* The resources close() goes through, in its order.
CloseTargets ==
    PoolContexts \o PoolBrowsers
        \o (IF playwright # 0 THEN <<Runtime(playwright)>> ELSE <<>>)

\* The close()/stop() calls that may raise during one shutdown: at most
\* MaxCloseFailures resources, those that failed to close before included,
\* are broken in this way.
FailureSets ==
    LET broken == BagToSet(closeCalls) \ closed
    IN  {F \in SUBSET Range(CloseTargets) :
            Cardinality(F \cup broken) <= MaxCloseFailures}

\* close(), called by a coroutine that is not inside scrape_articles: the
\* contexts, the browsers, the runtime, session_active.  The lists and
\* self.playwright are left as they are.
Close(c, maxCloses) ==
    /\ pc[c] = "idle"
    /\ closes < maxCloses
    /\ \E failing \in FailureSets :
          LET ctxs == PoolContexts
              brs  == PoolBrowsers
              pw   == IF playwright # 0 THEN <<Runtime(playwright)>> ELSE <<>>
              r1   == CloseLoop(ctxs, failing)
              r2   == IF r1.raised THEN NotAttempted ELSE CloseLoop(brs, failing)
              r3   == IF r2.raised THEN NotAttempted ELSE CloseLoop(pw, failing)
              done == r1.attempted \cup r2.attempted \cup r3.attempted
          IN  /\ closeCalls' = closeCalls (+) SetToBag(done)
              /\ closed' = closed \cup (done \ failing)
              /\ closeOutcome' = IF r3.raised THEN "raised" ELSE "returned"
              /\ session_active' = IF r3.raised THEN session_active ELSE FALSE
    /\ closes' = closes + 1
    /\ lastCall' = "close"
    /\ UNCHANGED <<pageVars, trackerVars, reconnects, closeFailed,
                   browser_pool, browser_contexts, playwright, session_lock,
                   nextId, initDone, initBase, stats, dead, openPages,
                   submitted,
                   pc, initI, articles, sem, tasks, results, outcome, returned>>

\* ----------------------------------------------------- _reconnect_browser
MaxReconnects == 1    \* SpecReconnect: _reconnect_browser calls
ReconnSubmitted == 1  \* SpecReconnect: articles submitted over all calls

\* A store that adds the new element at the end of the list.
StoreAppend(seq, index, v) == Append(seq, v)

\* seq[index] = v; out of range, the assignment raises IndexError and the
\* list stays as it is.
StoreAt(seq, index, v) ==
    IF index < Len(seq) THEN [seq EXCEPT ![index + 1] = v] ELSE seq

\* _reconnect_browser(index), called by a coroutine of its own: the old
\* browser of the slot is closed (a failure is ignored), a browser is
\* connected, its context created, and both are stored at index.  A
\* failed connection returns False; a failed new_context or an IndexError
\* of a store ends the method in "except Exception".  Nothing but the two
\* stores, which have no await between them, writes a field of the engine.
ReconnectBrowser(index, closeOk, browserOk, contextOk) ==
    /\ reconnects < MaxReconnects
    /\ reconnects' = reconnects + 1
    /\ browserOk => playwright # 0 /\ Runtime(playwright) \notin closed
    /\ IF index < Len(browser_pool)
         THEN LET old == Browser(browser_pool[index + 1])
              IN  /\ closeCalls' = closeCalls (+) SetToBag({old})
                  /\ closed' = IF closeOk THEN closed \cup {old} ELSE closed
         ELSE UNCHANGED <<closed, closeCalls>>
    /\ nextId' = IF browserOk THEN nextId + 1 ELSE nextId
    /\ IF browserOk /\ contextOk
         THEN /\ browser_pool' = StoreAt(browser_pool, index, nextId + 1)
              /\ browser_contexts' =
                    IF index < Len(browser_pool)
                      THEN StoreAt(browser_contexts, index, nextId + 1)
                      ELSE browser_contexts
         ELSE UNCHANGED <<browser_pool, browser_contexts>>
    /\ lastCall' = "_reconnect_browser"
    /\ UNCHANGED <<pageVars, trackerVars, playwright, session_active, session_lock,
                   initDone, initBase, closes, closeOutcome, stats, dead,
                   submitted, pc, initI, articles, sem, tasks, results,
                   outcome, returned, openPages, closeFailed>>

\* ------------------------------------------------- _extract_hero_image
Null == "None"

\* The order in which the script of _extract_hero_image tries its
\* strategies if twitter:image came first.
StrategyOrderTwitterFirst ==
    <<"twitter:image", "og:image", "schema.org", "link:image_src">>

\* The order of the four blocks of the script: og:image, twitter:image,
\* meta itemprop=image, link rel=image_src.
StrategyOrder ==
    <<"og:image", "twitter:image", "schema.org", "link:image_src">>

\* What a tag's content/href attribute may hold: nothing, an absolute URL,
\* a protocol-relative one, a relative one, or text that new URL() rejects.
UrlAttrs == {"", "http://cdn/a.jpg", "//cdn/a.jpg", "img/a.jpg", "ftp://["}

\* resolveUrl of the script, for an article at https://site/post.
ResolveUrl(url) ==
    CASE url = "" -> Null
      [] url = "http://cdn/a.jpg" -> url
      [] url = "//cdn/a.jpg" -> "https://cdn/a.jpg"
      [] url = "img/a.jpg" -> "https://site/img/a.jpg"
      [] OTHER -> Null

\* One block of the script: the tag is looked up and its URL resolved.
Candidate(meta, tag) ==
    IF meta[tag] = Absent THEN Null ELSE ResolveUrl(meta[tag])

\* The dict a block returns; only the og:image block reads a width.
HeroData(doc, tag) ==
    [url |-> Candidate(doc.meta, tag),
     width |-> IF tag = "og:image" /\ doc.ogWidth # Absent
                 THEN doc.ogWidth ELSE Null,
     source |-> tag]

\* The script as a whole: the first block that resolves a URL returns.
HeroScript(doc) ==
    LET hits == {k \in DOMAIN StrategyOrder :
                    Candidate(doc.meta, StrategyOrder[k]) # Null}
    IN  IF hits = {} THEN None
        ELSE <<HeroData(doc, StrategyOrder[CHOOSE k \in hits :
                                              \A j \in hits : k <= j])>>

\* _extract_hero_image: the script's dict when it has a url; None when the
\* script found nothing or page.evaluate raised.
ExtractHeroImageResult(doc) ==
    IF ~doc.evaluateOk THEN None ELSE HeroScript(doc)

\* The documents hero extraction is run on.
MetaDocuments ==
    {[kind |-> "meta", meta |-> m, ogWidth |-> w, evaluateOk |-> ok] :
        m \in [{"og:image", "twitter:image", "schema.org", "link:image_src"}
                  -> UrlAttrs \cup {Absent}],
        w \in {Absent, "1200"}, ok \in BOOLEAN}

\* A page has loaded: the document the extractors will see, one of docs.
OpenDocument(docs) ==
    /\ page = NoPage
    /\ \E doc \in docs : page' = doc
    /\ extracted' = NoOutput
    /\ UNCHANGED engineVars

\* hero_image = await self._extract_hero_image(page, url)
ExtractHeroImage ==
    /\ page.kind = "meta"
    /\ ~extracted.done
    /\ extracted' = [done |-> TRUE, hero |-> ExtractHeroImageResult(page)]
    /\ UNCHANGED <<page, engineVars>>

\* ------------------------------------------------------ _extract_images
MinWidth == 200     \* if (width < 200 || height < 150) return;
MinHeight == 150
MaxImages == 10     \* images.slice(0, 10)

\* let src = img.src || img.dataset.src || img.dataset.lazySrc || ''
RawSrc(img) ==
    IF img.src # "" THEN img.src
    ELSE IF img.dataSrc # "" THEN img.dataSrc
    ELSE img.lazySrc

\* img.naturalWidth || img.width || 0, and the same for the height; an
\* image that has not loaded has natural size 0.
WidthOf(img) == IF img.natural[1] # 0 THEN img.natural[1] ELSE img.declared[1]
HeightOf(img) == IF img.natural[2] # 0 THEN img.natural[2] ELSE img.declared[2]

\* src.toLowerCase()
ToLowerCase(src) ==
    IF src = "https://site/Logo.png" THEN "https://site/logo.png" ELSE src

\* The six srcLower.includes(...) tests, on the URLs of the model.
NonContent(src) ==
    \E word \in {"logo", "icon", "avatar", "advertisement", "banner",
                 "placeholder"} :
        <<ToLowerCase(src), word>> \in {<<"https://site/logo.png", "logo">>,
                                        <<"/img/banner.jpg", "banner">>}

\* seen.add(src)
SeenAfter(seen, src) == seen \cup {src}

\* The forEach body over the images the selectors match, in the order
\* they are visited (an image that two selectors match is visited twice).
RECURSIVE CollectImages(_, _, _)
CollectImages(visits, seen, images) ==
    IF visits = <<>> THEN images
    ELSE LET img == Head(visits)
             src == RawSrc(img)
         IN  IF \/ src = ""
                \/ src \in seen
                \/ WidthOf(img) < MinWidth
                \/ HeightOf(img) < MinHeight
                \/ NonContent(src)
               THEN CollectImages(Tail(visits), seen, images)
               ELSE CollectImages(Tail(visits), SeenAfter(seen, src),
                                  Append(images,
                                         [url |-> src, width |-> WidthOf(img),
                                          height |-> HeightOf(img)]))

\* images.slice(0, 10)
Slice(images) ==
    SubSeq(images, 1, IF Len(images) < MaxImages THEN Len(images) ELSE MaxImages)

\* urljoin(base_url, url) for an article at https://site/post, applied to
\* the URLs that do not start with "http".
UrlJoin(url) ==
    CASE url = "/img/a.jpg" -> "https://site/img/a.jpg"
      [] url = "/img/banner.jpg" -> "https://site/img/banner.jpg"
      [] OTHER -> url

\* _extract_images: the script, then the URLs made absolute; [] when
\* page.evaluate raised.
ExtractImagesResult(doc) ==
    IF ~doc.evaluateOk THEN <<>>
    ELSE LET images == Slice(CollectImages(doc.visits, {}, <<>>))
         IN  [k \in DOMAIN images |->
                 [images[k] EXCEPT !.url = UrlJoin(images[k].url)]]

\* Where an <img> of the model has its source written: src, data-src,
\* data-lazy-src.
ImgSources ==
    {<<"https://site/img/a.jpg", "", "">>, <<"https://site/Logo.png", "", "">>,
     <<"", "/img/a.jpg", "">>, <<"", "", "/img/banner.jpg">>, <<"", "", "">>}

\* Its natural size (0 by 0 when it has not loaded) and its declared size.
ImgSizes ==
    {<<<<0, 0>>, <<400, 300>>>>, <<<<0, 0>>, <<50, 50>>>>,
     <<<<0, 0>>, <<400, 100>>>>, <<<<400, 300>>, <<50, 50>>>>}

\* The <img> elements of the model.
ImgElements ==
    {[src |-> s[1], dataSrc |-> s[2], lazySrc |-> s[3],
      natural |-> z[1], declared |-> z[2]] : s \in ImgSources, z \in ImgSizes}

\* Loaded content images with sources of their own.
GalleryUrls ==
    <<"https://site/g1.jpg", "https://site/g2.jpg", "https://site/g3.jpg",
      "https://site/g4.jpg", "https://site/g5.jpg", "https://site/g6.jpg",
      "https://site/g7.jpg", "https://site/g8.jpg", "https://site/g9.jpg",
      "https://site/g10.jpg">>
Gallery(n) ==
    [k \in 1..n |-> [src |-> GalleryUrls[k], dataSrc |-> "", lazySrc |-> "",
                     natural |-> <<800, 600>>, declared |-> <<800, 600>>]]

MaxVisits == 2   \* images visited besides a gallery

\* The documents gallery extraction is run on: a gallery of 0, 9 or 10
\* images followed by up to MaxVisits other images.
ImageDocuments ==
    {[kind |-> "imgs", visits |-> Gallery(g) \o v, evaluateOk |-> ok] :
        g \in {0, MaxImages - 1, MaxImages},
        v \in UNION {[1..n -> ImgElements] : n \in 0..MaxVisits},
        ok \in BOOLEAN}

\* images = await self._extract_images(page, url)
ExtractImages ==
    /\ page.kind = "imgs"
    /\ ~extracted.done
    /\ LET images == ExtractImagesResult(page)
       IN  /\ extracted' = [done |-> TRUE, images |-> images]
           /\ stats' = IF page.evaluateOk
                         THEN [stats EXCEPT !.images_extracted = @ + Len(images)]
                         ELSE stats
    /\ UNCHANGED <<page, poolVars, closeVars, dead, submitted, pc, initI,
                   articles, sem, tasks, results, outcome, returned,
                   openPages, closeFailed, reconnects, trackerVars, lastCall>>

\* --------------------------------------------- _extract_article_content
ContentFloor == 200      \* if (text.trim().length > 200)
BodyCap == 10000         \* .trim().substring(0, 10000)
InnerTextCap == 5000     \* text[:5000]

\* urlparse(url).netloc.lower().replace('www.', '')
DomainOf(netloc) ==
    IF netloc = "www.archdaily.com" THEN "archdaily.com" ELSE netloc

\* site_selectors.get(domain, [])
SiteSelectors(domain) ==
    CASE domain = "archdaily.com" ->
            <<"article.afd-char-gallery", ".afd-gallery-container",
              "article[class*=article]", ".article-content">>
      [] domain = "dezeen.com" ->
            <<".article-content", "article .entry-content", ".dezeen-content">>
      [] domain = "designboom.com" ->
            <<".article-content", ".entry-content", "article .content">>
      [] OTHER -> <<>>

GenericSelectors ==
    <<"article", "[role=article]", ".article-content", ".article-body",
      ".post-content", ".entry-content", "main", "[role=main]", ".content">>

\* A list with the generic selectors ahead of the site's own.
SelectorsGenericFirst(netloc) ==
    GenericSelectors \o SiteSelectors(DomainOf(netloc))

\* selectors = site_selectors.get(domain, []) + [...]
SelectorsFor(netloc) == SiteSelectors(DomainOf(netloc)) \o GenericSelectors

\* _clean_content on a text of len characters of which junk belong to
\* the phrases it deletes; "" stays "".
CleanContent(text) == [text EXCEPT !.len = @ - text.junk, !.junk = 0]

NoText == [source |-> "", len |-> 0, junk |-> 0]

\* The script: the first selector, in order, whose element exists and has
\* more text than the floor; else the body text cut at BodyCap.
ContentScript(doc) ==
    LET selectors == SelectorsFor(doc.netloc)
        passes(k) == /\ selectors[k] \in DOMAIN doc.texts
                     /\ doc.texts[selectors[k]].len > ContentFloor
        hits == {k \in DOMAIN selectors : passes(k)}
    IN  IF hits # {}
          THEN LET k == CHOOSE k \in hits : \A j \in hits : k <= j
               IN  [source |-> selectors[k], len |-> doc.texts[selectors[k]].len,
                    junk |-> doc.texts[selectors[k]].junk]
          ELSE [source |-> "body",
                len |-> IF doc.body.len < BodyCap THEN doc.body.len ELSE BodyCap,
                junk |-> 0]

\* _extract_article_content: the cleaned text of the script; when
\* page.evaluate raises, the cleaned first InnerTextCap characters of
\* page.inner_text('body'); "" when that raises too.
ExtractArticleContentResult(doc) ==
    IF doc.evaluateOk
      THEN LET content == ContentScript(doc)
           IN  IF content.len > 0 THEN CleanContent(content) ELSE NoText
      ELSE IF doc.innerTextOk /\ doc.body.len > 0
             THEN CleanContent([source |-> "inner_text",
                                len |-> IF doc.body.len < InnerTextCap
                                          THEN doc.body.len ELSE InnerTextCap,
                                junk |-> 0])
             ELSE NoText

\* The selectors that match an element in the documents of the model.
MatchedSelectors ==
    {"article.afd-char-gallery", ".article-content", ".dezeen-content",
     "article", ".entry-content", "main"}

\* The trimmed text of a matched element: its length and how much of it
\* _clean_content deletes.
Texts ==
    {[len |-> 150, junk |-> 0], [len |-> 200, junk |-> 0],
     [len |-> 250, junk |-> 0], [len |-> 205, junk |-> 13]}

MaxMatched == 2   \* selectors that match an element in one document

\* The documents body extraction is run on.
BodyDocuments ==
    {[kind |-> "body", netloc |-> n, texts |-> t, body |-> [len |-> b],
      evaluateOk |-> e[1], innerTextOk |-> e[2]] :
        n \in {"www.archdaily.com", "dezeen.com", "example.com"},
        t \in UNION {[S -> Texts] : S \in {S \in SUBSET MatchedSelectors :
                                             Cardinality(S) <= MaxMatched}},
        b \in {0, 150, 12000},
        e \in {<<TRUE, TRUE>>, <<FALSE, TRUE>>, <<FALSE, FALSE>>}}

\* content = await self._extract_article_content(page, url)
ExtractArticleContent ==
    /\ page.kind = "body"
    /\ ~extracted.done
    /\ extracted' = [done |-> TRUE, content |-> ExtractArticleContentResult(page)]
    /\ UNCHANGED <<page, engineVars>>

\* ------------------------------------ the three extractors on one page
\* An extractor whose except clause lets the error through.
ExtractorCatchesNothing(error) == FALSE

\* "except Exception" of _extract_hero_image and _extract_images, and the
\* bare "except:" around the inner_text fallback: the error page.evaluate
\* (or page.inner_text) raised is caught.
ExtractorCatches(error) == TRUE

\* What each extractor sees of a page that holds all three parts.
HeroPart(doc) ==
    [kind |-> "meta", meta |-> doc.meta, ogWidth |-> doc.ogWidth,
     evaluateOk |-> doc.heroOk]
BodyPart(doc) ==
    [kind |-> "body", netloc |-> doc.netloc, texts |-> doc.texts,
     body |-> doc.body, evaluateOk |-> doc.contentOk,
     innerTextOk |-> doc.innerTextOk]
ImagesPart(doc) ==
    [kind |-> "imgs", visits |-> doc.visits, evaluateOk |-> doc.imagesOk]

\* The pages the three extractors are run on, each call of page.evaluate
\* and of page.inner_text failing or not on its own.
FullDocuments ==
    {[kind |-> "full",
      meta |-> [tag \in {"og:image", "twitter:image", "schema.org",
                         "link:image_src"} |->
                   IF tag = "og:image" THEN og ELSE Absent],
      ogWidth |-> Absent, netloc |-> "example.com",
      texts |-> t, body |-> [len |-> b], visits |-> Gallery(g),
      heroOk |-> h, contentOk |-> e[1], innerTextOk |-> e[2],
      imagesOk |-> i] :
        og \in {Absent, "http://cdn/a.jpg"},
        t \in UNION {[S -> {[len |-> 250, junk |-> 0]}] : S \in {{}, {"article"}}},
        b \in {0, 150}, g \in {0, 2}, h \in BOOLEAN, i \in BOOLEAN,
        e \in {<<TRUE, TRUE>>, <<FALSE, TRUE>>, <<FALSE, FALSE>>}}

\* The extractor whose turn it is raised and its except clause did not
\* hold the error: the statements after it do not run.
Escaped(ran, ok, error) ==
    IF ok \/ ExtractorCatches(error) THEN ran
    ELSE [done |-> TRUE, raised |-> error, ran |-> ran.ran]

\* hero_image = await self._extract_hero_image(page, url), on a page that
\* holds all three parts.
PageExtractHero ==
    /\ page.kind = "full"
    /\ extracted = NoOutput
    /\ extracted' = Escaped([done |-> FALSE, raised |-> "",
                             ran |-> <<"hero">>,
                             hero |-> ExtractHeroImageResult(HeroPart(page))],
                            page.heroOk, "hero")
    /\ UNCHANGED <<page, engineVars>>

\* content = await self._extract_article_content(page, url)
PageExtractContent ==
    /\ page.kind = "full"
    /\ ~extracted.done
    /\ extracted # NoOutput
    /\ extracted.ran = <<"hero">>
    /\ extracted' =
          Escaped([done |-> FALSE, raised |-> "",
                   ran |-> <<"hero", "content">>, hero |-> extracted.hero,
                   content |-> ExtractArticleContentResult(BodyPart(page))],
                  page.contentOk \/ page.innerTextOk, "content")
    /\ UNCHANGED <<page, engineVars>>

\* images = await self._extract_images(page, url)
PageExtractImages ==
    /\ page.kind = "full"
    /\ ~extracted.done
    /\ extracted # NoOutput
    /\ extracted.ran = <<"hero", "content">>
    /\ LET images == ExtractImagesResult(ImagesPart(page))
       IN  /\ extracted' =
                 Escaped([done |-> TRUE, raised |-> "",
                          ran |-> <<"hero", "content", "images">>,
                          hero |-> extracted.hero,
                          content |-> extracted.content, images |-> images],
                         page.imagesOk, "images")
           /\ stats' = IF page.imagesOk
                         THEN [stats EXCEPT !.images_extracted = @ + Len(images)]
                         ELSE stats
    /\ UNCHANGED <<page, poolVars, closeVars, dead, submitted, pc, initI,
                   articles, sem, tasks, results, outcome, returned,
                   openPages, closeFailed, reconnects, trackerVars, lastCall>>

\* ------------------------------------------------------ _block_resources
\* A type list that also holds the images.
BlockedTypesWithImages == {"media", "font", "websocket", "manifest", "image"}

\* blocked_types = ['media', 'font', 'websocket', 'manifest']
BlockedTypes == {"media", "font", "websocket", "manifest"}

\* blocked_domains
BlockedDomains ==
    {"google-analytics", "googletagmanager", "googlesyndication",
     "doubleclick", "facebook.com", "facebook.net", "twitter.com",
     "amazon-adsystem", "adsystem", "adservice", "advertising", "analytics",
     "hotjar", "mixpanel", "segment.io", "optimizely", "crazyegg",
     "mouseflow"}

\* The URLs of the requests of the model.
RequestUrls ==
    {"https://site/post", "https://cdn.site/img/a.jpg",
     "https://www.google-analytics.com/ga.js",
     "https://connect.facebook.net/sdk.js",
     "https://site/Analytics/report.js",
     "https://c.amazon-adsystem.com/aax2/apstag.js",
     "https://site/fonts/a.woff2", "https://static.HotJar.com/c/h.js"}

\* request.url.lower()
Lower(url) ==
    CASE url = "https://site/Analytics/report.js" ->
            "https://site/analytics/report.js"
      [] url = "https://static.HotJar.com/c/h.js" ->
            "https://static.hotjar.com/c/h.js"
      [] OTHER -> url

\* "domain in url", on the URLs of the model: the strings of
\* blocked_domains that url holds as a substring, case kept.
DomainsIn(url) ==
    CASE url = "https://www.google-analytics.com/ga.js" ->
            {"google-analytics", "analytics"}
      [] url = "https://connect.facebook.net/sdk.js" -> {"facebook.net"}
      [] url = "https://site/analytics/report.js" -> {"analytics"}
      [] url = "https://c.amazon-adsystem.com/aax2/apstag.js" ->
            {"amazon-adsystem", "adsystem"}
      [] url = "https://static.hotjar.com/c/h.js" -> {"hotjar"}
      [] OTHER -> {}

\* _block_resources(route): the calls it makes on the route, in order.
BlockResourcesResult(request) ==
    LET url == Lower(request.url)
    IN  IF request.resource_type \in BlockedTypes THEN <<"abort">>
        ELSE IF \E domain \in BlockedDomains : domain \in DomainsIn(url)
               THEN <<"abort">>
               ELSE <<"continue_">>

\* The requests page.route("**/*", ...) hands to the handler.
Requests ==
    {[kind |-> "request", resource_type |-> t, url |-> u] :
        t \in {"document", "image", "script", "stylesheet", "xhr", "media",
               "font", "websocket", "manifest"},
        u \in RequestUrls}

\* The handler runs on an intercepted request.
BlockResources ==
    /\ page.kind = "request"
    /\ ~extracted.done
    /\ extracted' = [done |-> TRUE, calls |-> BlockResourcesResult(page)]
    /\ UNCHANGED <<page, engineVars>>

\* ----------------------------- DomusScraper.fetch_articles and the tracker
MAX_NEW_ARTICLES == 10   \* DomusScraper.MAX_NEW_ARTICLES
MaxRuns == 2             \* SpecTracker: fetch_articles calls

\* The article URLs of the model, numbered, and what the homepage may
\* show of them: a run of consecutive articles, in the order list(urls)
\* gives to the set of links.
MaxShown == MAX_NEW_ARTICLES + 2
Homepages ==
    {[k \in 1..n |-> IF rev THEN lo + n - k ELSE lo + k - 1] :
        lo \in {1, 4}, n \in {0, 2, MAX_NEW_ARTICLES, MaxShown},
        rev \in BOOLEAN}

\* ArticleTracker.filter_new_articles outside test mode: the URLs of the
\* list that have no row in the table, in the order of the list.
FilterNewArticles(seen, urls) == SelectSeq(urls, LAMBDA u : u \notin seen)

\* new_urls[:self.MAX_NEW_ARTICLES]
Limit(urls) ==
    SubSeq(urls, 1, IF Len(urls) < MAX_NEW_ARTICLES THEN Len(urls)
                                                    ELSE MAX_NEW_ARTICLES)

\* ArticleTracker.mark_as_seen: one upsert per URL; a failed one is
\* skipped.
MarkAsSeen(seen, urls, failing) == seen \cup (Range(urls) \ failing)

\* fetch_articles, one run: the homepage is loaded and its links
\* extracted, the tracker filters the new ones, the first
\* MAX_NEW_ARTICLES of them become article dicts (every URL the patterns
\* match yields a title), ALL links are marked as seen, and the page is
\* closed.  Any exception, that of page.close() included, is caught by
\* the outer except clause, which returns [].
FetchArticles(all_links, gotoOk, failing, closeOk) ==
    /\ runs < MaxRuns
    /\ runs' = runs + 1
    /\ lastCall' = "fetch_articles"
    /\ LET new_urls == FilterNewArticles(seenUrls, all_links)
           urls_to_process == Limit(new_urls)
       IN  IF ~gotoOk \/ all_links = <<>>
             THEN UNCHANGED <<seenUrls, reportedNew, delivered>>
           ELSE IF new_urls = <<>>
             THEN UNCHANGED <<seenUrls, reportedNew, delivered>>
           ELSE /\ reportedNew' = reportedNew \cup Range(new_urls)
                /\ seenUrls' = MarkAsSeen(seenUrls, all_links, failing)
                /\ delivered' = IF closeOk
                                  THEN delivered \cup Range(urls_to_process)
                                  ELSE delivered
    /\ UNCHANGED <<pageVars, poolVars, closeVars, stats, dead, submitted, pc,
                   initI, articles, sem, tasks, results, outcome, returned,
                   openPages, closeFailed, reconnects>>

\* ------------------------------------------------------- specifications
TaskIds == 1..(MaxSubmitted + LifeSubmitted + ConcSubmitted)

\* What page.goto may do: time out, fail, lose the browser, or load.
GotoOutcomes == {"Timeout", "NavigationError", "ConnectionError", "loaded"}

\* What the extractors may find on a loaded page.
Contents == {"long", "short"}
Heroes == {"None", "og:image"}
Galleries == {2}   \* len(images) of _extract_images on a loaded page

\* The steps of the coroutines once a call is under way; contexts, gotos,
\* contents, heroes and galleries are what the environment lets
\* new_context, page.goto and the three extractors do.
Environment(contexts, gotos, contents, heroes, galleries) ==
    \/ \E c \in Callers, i \in TaskIds : TaskStart(c, i)
    \/ \E c \in Callers, i \in TaskIds, ok \in BOOLEAN : TaskNewPage(c, i, ok)
    \/ \E c \in Callers, i \in TaskIds, o \in gotos,
          content \in contents, hero \in heroes, images \in galleries :
          TaskLoad(c, i, o, content, hero, images)
    \/ \E c \in Callers, i \in TaskIds, ok \in BOOLEAN : TaskClosePage(c, i, ok)
    \/ \E c \in Callers : Finish(c)
    \/ \E c \in Callers : PlaywrightStart(c)
    \/ \E c \in Callers, ok \in BOOLEAN : CreateBrowser(c, ok)
    \/ \E c \in Callers, ok \in contexts : CreateContext(c, ok)

\* One coroutine submits batches to a fresh engine; page.goto may do
\* anything.
Next ==
    \/ \E n \in 1..MaxSubmitted : ScrapeArticles(1, n, MaxSubmitted)
    \/ ScrapeEmpty(1)
    \/ Environment(BOOLEAN, GotoOutcomes, Contents, Heroes, Galleries)

Spec == Init /\ [][Next]_vars

\* The engine's life: one coroutine scrapes one article at a time and
\* closes, in any order; a
\* browser that connects gets its context and a page that opens loads an
\* article with a hero image.
NextLife ==
    \/ ScrapeArticles(1, 1, LifeSubmitted)
    \/ Environment({TRUE}, {"loaded"}, {"long"}, {"og:image"}, Galleries)
    \/ Close(1, MaxCloses)

SpecLife == Init /\ [][NextLife]_vars

\* Two coroutines call scrape_articles concurrently; pages load or fail.
NextConc ==
    \/ \E c \in Callers, n \in 1..ConcSubmitted :
          ScrapeArticles(c, n, ConcSubmitted)
    \/ \E c \in Callers : ScrapeEmpty(c)
    \/ \E c \in Callers : LockAcquired(c)
    \/ Environment(BOOLEAN, {"NavigationError", "loaded"}, {"long"}, Heroes, {0})

SpecConc == Init /\ [][NextConc]_vars

\* Hero extraction on every document of MetaDocuments.
NextHero ==
    \/ OpenDocument(MetaDocuments)
    \/ ExtractHeroImage

SpecHero == Init /\ [][NextHero]_vars

\* Gallery extraction on every document of ImageDocuments.
NextImages ==
    \/ OpenDocument(ImageDocuments)
    \/ ExtractImages

SpecImages == Init /\ [][NextImages]_vars

\* Body extraction on every document of BodyDocuments.
NextContent ==
    \/ OpenDocument(BodyDocuments)
    \/ ExtractArticleContent

SpecContent == Init /\ [][NextContent]_vars

\* One coroutine scrapes while another calls _reconnect_browser on a slot
\* of the pool or on an index past its end.
NextReconnect ==
    \/ ScrapeArticles(1, 1, ReconnSubmitted)
    \/ Environment(BOOLEAN, {"loaded"}, {"long"}, {"None"}, {0})
    \/ \E index \in 0..browser_pool_size, closeOk, browserOk, contextOk \in BOOLEAN :
          ReconnectBrowser(index, closeOk, browserOk, contextOk)

SpecReconnect == Init /\ [][NextReconnect]_vars

\* The three extractors, in the order _scrape_single_article calls them,
\* on one loaded page.
NextExtract ==
    \/ OpenDocument(FullDocuments)
    \/ PageExtractHero
    \/ PageExtractContent
    \/ PageExtractImages

SpecExtract == Init /\ [][NextExtract]_vars

\* The route handler on one intercepted request.
NextRoute ==
    \/ OpenDocument(Requests)
    \/ BlockResources

SpecRoute == Init /\ [][NextRoute]_vars

\* Batches larger than the gate, on an event loop that runs every
\* coroutine that is ready and with page operations that all return or
\* raise: a step that stays possible is taken.
NextFair ==
    \/ \E n \in 1..FairSubmitted : ScrapeArticles(1, n, FairSubmitted)
    \/ Environment(BOOLEAN, {"Timeout", "loaded"}, {"long"}, {"None"}, {0})

Fairness ==
    /\ \A i \in 1..FairSubmitted :
          /\ WF_vars(TaskStart(1, i))
          /\ WF_vars(\E ok \in BOOLEAN : TaskNewPage(1, i, ok))
          /\ WF_vars(\E o \in {"Timeout", "loaded"} :
                        TaskLoad(1, i, o, "long", "None", 0))
          /\ WF_vars(\E ok \in BOOLEAN : TaskClosePage(1, i, ok))
    /\ WF_vars(Finish(1))

SpecFair == Init /\ [][NextFair]_vars /\ Fairness

\* Repeated runs of the Domus scraper against one tracker.
NextTracker ==
    \E all_links \in Homepages, gotoOk, closeOk \in BOOLEAN :
       \E failing \in {{}, Range(all_links)} :
          FetchArticles(all_links, gotoOk, failing, closeOk)

SpecTracker == Init /\ [][NextTracker]_vars

\* ================================================================ claims
InFlight(c) ==
    {i \in DOMAIN tasks[c] : tasks[c][i].pc \in {"opening", "loading", "closing"}}

\* C1: a call that returns gives back exactly one result per request, and
\* result i is the result of request i (same passthrough title, same
\* link), whichever tasks succeeded, timed out or failed and in whatever
\* order they ended.
C1_OneResultPerRequestInOrder ==
    \A c \in Callers :
        outcome[c] = "returned" =>
            /\ Len(returned[c]) = Len(articles[c])
            /\ \A i \in DOMAIN returned[c] :
                  /\ returned[c][i].title = articles[c][i].title
                  /\ returned[c][i].link = articles[c][i].link
                  /\ returned[c][i].scrape_success \in {"True", "False"}

\* C1 witness: a batch of two came back with a timeout first and a
\* success second.
C1_Witness ==
    /\ outcome[1] = "returned"
    /\ Len(returned[1]) = 2
    /\ returned[1][1].scrape_error = "Timeout"
    /\ returned[1][2].scrape_success = "True"

\* C2 (as claimed): no two tasks of a batch that are between acquiring the
\* gate and returning their result hold the same browser context.
C2_SlotHeldByOneTask ==
    \A c \in Callers : \A i, j \in InFlight(c) :
        i # j => tasks[c][i].ctx # tasks[c][j].ctx

\* C3 (as claimed): during a batch the number of tasks inside
\* _scrape_single_article never exceeds the number of slots in the pool.
C3_InFlightWithinPool ==
    \A c \in Callers :
        pc[c] = "gather" => Cardinality(InFlight(c)) <= Len(browser_pool)

\* C4 (as claimed): a task whose page.goto timed out ends with
\* scrape_success False, scrape_error "Timeout" and an empty full_content.
C4_TimeoutYieldsTimeoutResult ==
    [][\A c \in Callers : \A i \in DOMAIN tasks[c] :
          (/\ tasks[c][i].pc = "closing"
           /\ tasks[c][i].raising = "Timeout"
           /\ tasks'[c][i].pc = "done")
          => /\ results'[c][i].scrape_success = "False"
             /\ results'[c][i].scrape_error = "Timeout"
             /\ results'[c][i].full_content = ""]_vars

\* C5: scrape_articles raises only out of an initialization that left the
\* pool empty; when gather is over the call returns, and every exception a
\* task raised has become a failed result at that task's position.
C5_OnlyEmptyPoolRaises ==
    [][\A c \in Callers :
          /\ (outcome'[c] = "raised" /\ outcome[c] # "raised")
                => /\ pc[c] \in {"connect", "context"}
                   /\ browser_pool' = <<>>
                   /\ ~session_active'
          /\ (pc[c] = "gather" /\ pc'[c] = "idle")
                => /\ outcome'[c] = "returned"
                   /\ Len(returned'[c]) = Len(results[c])
                   /\ \A i \in DOMAIN results[c] :
                         IsException(results[c][i]) =>
                            /\ returned'[c][i].scrape_success = "False"
                            /\ returned'[c][i].scrape_error =
                                  results[c][i].exception]_vars

\* C5 witness: the context lookup of one task raised IndexError before any
\* page was opened, the call returned it as a failed result, and a sibling
\* task succeeded.
C5_Witness ==
    /\ outcome[1] = "returned"
    /\ \E i, j \in DOMAIN returned[1] :
          /\ returned[1][i].scrape_error = "IndexError"
          /\ returned[1][i].scrape_success = "False"
          /\ returned[1][j].scrape_success = "True"

\* C6 (as claimed): an initialization that ends leaves the pool active
\* exactly when it connected at least one session, and raises when it
\* connected none.
C6_ActiveIffConnected ==
    [][\A c \in Callers :
          (pc[c] \in {"connect", "context"} /\ pc'[c] \notin {"connect", "context"})
          => /\ session_active' <=> (nextId' > initBase)
             /\ (nextId' = initBase) => outcome'[c] = "raised"]_vars

\* C7: with callers of scrape_articles running concurrently, at most one
\* of them is inside the initialization body at a time, the body runs to
\* success at most once, no more than browser_pool_size browsers are ever
\* connected, and nobody connects while the pool is active.
C7_InitializedOnce ==
    LET initializing == {c \in Callers : pc[c] \in {"starting", "connect", "context"}}
    IN  /\ initDone <= 1
        /\ nextId <= browser_pool_size
        /\ Cardinality(initializing) <= 1
        /\ session_active => initializing = {}

\* C7 witness: both callers got their batch back and the initialization
\* body succeeded once.
C7_Witness ==
    /\ initDone = 1
    /\ \A c \in Callers : outcome[c] = "returned" /\ Len(returned[c]) > 0

\* C8 (as claimed): once a task on a slot has failed with a lost browser
\* connection, no later task starts using that slot before the browser
\* was reconnected.
C8_ReconnectBeforeReuse ==
    [][\A c \in Callers : \A i \in DOMAIN tasks[c] :
          (/\ tasks[c][i].pc = "queued"
           /\ i \in DOMAIN tasks'[c]
           /\ tasks'[c][i].pc = "opening"
           /\ \A j \in InFlight(c) : tasks[c][j].ctx # tasks'[c][i].ctx)
          => tasks'[c][i].ctx \notin dead]_vars

\* C9 (as claimed): a close() that directly follows a close() returns and
\* invokes close()/stop() on nothing the earlier call closed.
C9_SecondCloseTouchesNothing ==
    [][(closes' = closes + 1 /\ lastCall = "close")
          => /\ closeOutcome' = "returned"
             /\ \A r \in closed :
                   CopiesIn(r, closeCalls') = CopiesIn(r, closeCalls)]_vars

\* C10: every close() call invokes close() on each context and each
\* browser of the pool and stop() on the runtime, whichever of them
\* raise, and returns.
C10_CloseAttemptsEverything ==
    [][closes' = closes + 1
          => /\ closeOutcome' = "returned"
             /\ ~session_active'
             /\ \A r \in Range(CloseTargets) :
                   CopiesIn(r, closeCalls') = CopiesIn(r, closeCalls) + 1]_vars

\* C10 witness: closing the first context raised, and the browser and the
\* runtime that come after it were closed all the same.
C10_Witness ==
    /\ closes = 1
    /\ browser_contexts # <<>>
    /\ Context(browser_contexts[1]) \notin closed
    /\ CopiesIn(Context(browser_contexts[1]), closeCalls) = 1
    /\ \A b \in Range(browser_pool) : Browser(b) \in closed
    /\ Runtime(playwright) \in closed

\* C11 (as claimed): the pool never holds more browsers than the
\* configured browser_pool_size.
C11_PoolWithinConfiguredSize == Len(browser_pool) <= browser_pool_size

C13_SuccessByBodyTextAlone ==
    [][\A c \in Callers : \A i \in DOMAIN tasks[c] :
          /\ (/\ i \in DOMAIN tasks'[c]
              /\ tasks[c][i].pc = "loading"
              /\ tasks'[c][i].pc = "closing"
              /\ tasks'[c][i].result.full_content = "text")
             => tasks'[c][i].result.scrape_success = "True"
          /\ (/\ i \in DOMAIN tasks'[c]
              /\ tasks[c][i].pc = "closing"
              /\ tasks[c][i].result.full_content = "text"
              /\ tasks'[c][i].pc = "done")
             => results'[c][i].scrape_success = "True"]_vars

\* C14 (as claimed): the request dicts a caller submitted stay as they were
\* submitted, and every returned result carries its request's passthrough
\* title unchanged.
C14_RequestsUntouched ==
    \A c \in Callers :
        /\ \A i \in DOMAIN articles[c] :
              articles[c][i] = Request(i, articles[c][i].link # "")
        /\ outcome[c] = "returned" =>
              \A i \in DOMAIN returned[c] : returned[c][i].title = i

C16_GalleryFiltered ==
    (page.kind = "imgs" /\ extracted.done) =>
        LET images == extracted.images
        IN  /\ Len(images) <= 10
            /\ \A k \in DOMAIN images :
                  /\ images[k].width >= 200
                  /\ images[k].height >= 150
                  /\ images[k].url \notin {"https://site/Logo.png",
                                           "https://site/img/banner.jpg"}
            /\ \A j, k \in DOMAIN images : images[j].url = images[k].url => j = k
            /\ (/\ page.evaluateOk
                /\ Len(images) < 10
                /\ \E v \in DOMAIN page.visits :
                      /\ page.visits[v].src = "https://site/img/a.jpg"
                      /\ page.visits[v].declared = <<400, 300>>)
               => \E k \in DOMAIN images :
                     images[k].url = "https://site/img/a.jpg"

\* C17: when page.evaluate returns, body extraction gives the text of the
\* first selector, site-specific ones before generic ones, whose element
\* has more than 200 characters: an element of 150 (or 200) characters is
\* passed over for a later selector, one of 250 is taken, and when no
\* selector passes the result is the body text cut at 10000 characters.
C17_FirstSelectorOverFloor ==
    (page.kind = "body" /\ extracted.done /\ page.evaluateOk) =>
        LET selectors == SelectorsFor(page.netloc)
            content == extracted.content
            len(k) == IF selectors[k] \in DOMAIN page.texts
                        THEN page.texts[selectors[k]].len ELSE 0
            first(k) == len(k) > 200 /\ \A j \in 1..(k - 1) : len(j) <= 200
        IN  /\ \A k \in DOMAIN selectors :
                  first(k) => /\ content.source = selectors[k]
                              /\ content.len = len(k) - page.texts[selectors[k]].junk
            /\ (\A k \in DOMAIN selectors : len(k) <= 200)
                  => /\ content.source = (IF page.body.len > 0 THEN "body" ELSE "")
                     /\ content.len = (IF page.body.len < 10000
                                         THEN page.body.len ELSE 10000)
            /\ (/\ page.netloc = "www.archdaily.com"
                /\ {"article.afd-char-gallery", "article"} \subseteq DOMAIN page.texts
                /\ page.texts["article.afd-char-gallery"].len > 200)
               => content.source = "article.afd-char-gallery"
            /\ (/\ page.netloc = "dezeen.com"
                /\ {".dezeen-content", "article"} \subseteq DOMAIN page.texts
                /\ ".article-content" \notin DOMAIN page.texts
                /\ page.texts[".dezeen-content"].len > 200)
               => content.source = ".dezeen-content"

\* C17 witness: on an archdaily.com page .article-content, a site-specific
\* selector, held 150 characters and was passed over, and the generic
\* selector article, with 250 characters, gave the text.
C17_Witness ==
    /\ page.kind = "body"
    /\ page.netloc = "www.archdaily.com"
    /\ page.evaluateOk
    /\ DOMAIN page.texts = {".article-content", "article"}
    /\ page.texts[".article-content"].len = 150
    /\ page.texts["article"].len = 250
    /\ extracted.done
    /\ extracted.content.source = "article"
    /\ extracted.content.len = 250

\* C18 (as claimed): the task of the request at input index i (counted
\* from 0) runs on slot i mod len(browser_pool), and the context it takes
\* is the context of the browser in that slot.
C18_TaskOnSlotIndexModPool ==
    [][\A c \in Callers : \A i \in DOMAIN tasks[c] :
          (/\ tasks[c][i].pc = "queued"
           /\ i \in DOMAIN tasks'[c]
           /\ tasks'[c][i].pc = "opening")
          => /\ tasks'[c][i].browser_index = (i - 1) % Len(browser_pool)
             /\ tasks'[c][i].ctx =
                   browser_pool[((i - 1) % Len(browser_pool)) + 1]]_vars

\* C19 (as claimed): while a task of a batch has not produced its result,
\* no step changes the success count, the failure count, the total or the
\* hero-image count of stats.
C19_StatsOnlyAfterBatch ==
    [][(\E c \in Callers : \E i \in DOMAIN tasks[c] : tasks[c][i].pc # "done")
          => /\ stats'.total_scraped = stats.total_scraped
             /\ stats'.successful = stats.successful
             /\ stats'.failed = stats.failed
             /\ stats'.hero_images_found = stats.hero_images_found]_vars

TaskRank(t) ==
    CASE t.pc = "queued" -> 0
      [] t.pc = "opening" -> 1
      [] t.pc = "loading" -> 2
      [] t.pc = "closing" -> 3
      [] t.pc = "done" -> 4

\* C21: within one scrape_articles call a task only moves forward, so it
\* passes page.goto at most once whatever that navigation did; a task that
\* is done stays done and the result it handed to gather is never
\* replaced.
C21_NoRetryDoneIsTerminal ==
    [][\A c \in Callers : \A i \in DOMAIN tasks[c] :
          i \in DOMAIN tasks'[c] =>
             /\ TaskRank(tasks'[c][i]) >= TaskRank(tasks[c][i])
             /\ tasks[c][i].pc = "done" =>
                   /\ tasks'[c][i].pc = "done"
                   /\ results'[c][i] = results[c][i]
             /\ (results[c][i] # Pending) <=> (tasks[c][i].pc = "done")]_vars

\* C21 witness: the first task's navigation timed out, the task is done
\* with a Timeout result, and its sibling is still loading.
C21_Witness ==
    /\ pc[1] = "gather"
    /\ Len(tasks[1]) = 2
    /\ tasks[1][1].pc = "done"
    /\ "scrape_error" \in DOMAIN results[1][1]
    /\ results[1][1].scrape_error = "Timeout"
    /\ tasks[1][2].pc = "loading"

\* C22: a call of _reconnect_browser leaves the lengths of browser_pool and
\* browser_contexts as they were and changes the two lists at one position
\* at most, the same in both, whether it ends in success or in failure.
C22_ReconnectTouchesOneSlot ==
    [][reconnects' = reconnects + 1 =>
          /\ Len(browser_pool') = Len(browser_pool)
          /\ Len(browser_contexts') = Len(browser_contexts)
          /\ \E index \in 0..browser_pool_size :
                /\ \A k \in DOMAIN browser_pool :
                      k # index + 1 => browser_pool'[k] = browser_pool[k]
                /\ \A k \in DOMAIN browser_contexts :
                      k # index + 1 => browser_contexts'[k] = browser_contexts[k]]_vars

\* C22 witness: the pool holds two browsers, the first is the one the
\* initialization connected and the second was put there by a reconnect.
C22_Witness ==
    /\ reconnects = 1
    /\ browser_pool = <<1, 3>>
    /\ browser_contexts = <<1, 3>>
    /\ Browser(2) \in closed

\* C23: on one page, an error inside an extractor stays inside it: all
\* three extractors run, none raises, and the piece whose page.evaluate
\* failed is None for the hero, [] for the images, and for the body the
\* text of the inner_text fallback or "" when that fails too.
C23_ExtractorErrorsStayInside ==
    (page.kind = "full" /\ extracted.done) =>
        /\ extracted.raised = ""
        /\ extracted.ran = <<"hero", "content", "images">>
        /\ ~page.heroOk => extracted.hero = None
        /\ ~page.imagesOk => extracted.images = <<>>
        /\ ~page.contentOk =>
              \/ extracted.content = NoText
              \/ /\ page.innerTextOk
                 /\ extracted.content.source = "inner_text"
        /\ (page.heroOk /\ page.meta["og:image"] # Absent) =>
              extracted.hero # None
        /\ (page.imagesOk /\ page.visits # <<>>) => extracted.images # <<>>

\* C23 witness: every page.evaluate raised on a page with a body, and the
\* extractors returned None, the inner_text fallback and [].
C23_Witness ==
    /\ page.kind = "full"
    /\ extracted.done
    /\ ~page.heroOk /\ ~page.contentOk /\ ~page.imagesOk
    /\ page.innerTextOk
    /\ extracted.ran = <<"hero", "content", "images">>
    /\ extracted.hero = None
    /\ extracted.content.source = "inner_text"
    /\ extracted.images = <<>>

\* C24: the handler makes one call on the route of a request: abort when
\* the resource type is media, font, websocket or manifest, or when the
\* URL, case aside, holds a blocked substring; continue_ otherwise.  A
\* document or an image is aborted for its URL only.
C24_OneDecisionPerRequest ==
    (page.kind = "request" /\ extracted.done) =>
        /\ Len(extracted.calls) = 1
        /\ extracted.calls[1] \in {"abort", "continue_"}
        /\ extracted.calls[1] = "abort" <=>
              \/ page.resource_type \in {"media", "font", "websocket",
                                         "manifest"}
              \/ DomainsIn(Lower(page.url)) \cap BlockedDomains # {}
        /\ (/\ page.resource_type \in {"document", "image"}
            /\ page.url \in {"https://site/post", "https://cdn.site/img/a.jpg",
                             "https://site/fonts/a.woff2"})
              => extracted.calls = <<"continue_">>

\* C24 witness: an image from the site's CDN was let through.
C24_Witness ==
    /\ page.kind = "request"
    /\ extracted.done
    /\ page.resource_type = "image"
    /\ page.url = "https://cdn.site/img/a.jpg"
    /\ extracted.calls = <<"continue_">>

C26_HeroCountMatchesResults ==
    (\A c \in Callers : pc[c] = "idle") =>
        /\ stats.hero_images_found <= stats.successful
        /\ (/\ returned[1] # <<>>
            /\ stats.total_scraped = Len(returned[1]))
              => stats.hero_images_found =
                    Cardinality({i \in DOMAIN returned[1] :
                                    /\ Succeeded(returned[1][i])
                                    /\ Truthy(returned[1][i].hero_image)})

\* C27 (as claimed): whenever no initialization is under way, browser_pool
\* and browser_contexts have the same length and the context at each
\* position was created from the browser at that position.
C27_PoolAndContextsAligned ==
    (\A c \in Callers : pc[c] \in {"idle", "gather"}) =>
        /\ Len(browser_contexts) = Len(browser_pool)
        /\ \A k \in DOMAIN browser_contexts :
              browser_contexts[k] = browser_pool[k]

\* C28 (as claimed): no task is handed a context that close() has closed,
\* nor one whose browser close() has closed.
C28_NoTaskOnClosedSession ==
    [][\A c \in Callers : \A i \in DOMAIN tasks[c] :
          (/\ tasks[c][i].pc = "queued"
           /\ i \in DOMAIN tasks'[c]
           /\ tasks'[c][i].pc = "opening")
          => /\ Context(tasks'[c][i].ctx) \notin closed
             /\ Browser(tasks'[c][i].ctx) \notin closed]_vars

\* The tasks of caller c that hold a permit of the gate.
Holding(c) ==
    {i \in DOMAIN tasks[c] : tasks[c][i].pc \in {"opening", "loading", "closing"}}

\* C29: while a batch runs, the free permits and the tasks inside the
\* gate add up to the size of the gate; every queued task gets its
\* terminal result; and the call returns.
C29_EveryBatchTerminates ==
    /\ [](pc[1] = "gather" => sem[1] + Cardinality(Holding(1)) = GateSize)
    /\ \A i \in 1..FairSubmitted :
          (/\ pc[1] = "gather" /\ i \in DOMAIN tasks[1]
           /\ tasks[1][i].pc = "queued")
             ~> (/\ i \in DOMAIN tasks[1] /\ tasks[1][i].pc = "done"
                 /\ results[1][i] # Pending)
    /\ (pc[1] = "gather") ~> (pc[1] = "idle" /\ outcome[1] = "returned")

\* C29 witness: a batch of three on a gate of two; the first task failed
\* and gave its permit back, and the third got in after it.
C29_Witness ==
    /\ pc[1] = "gather"
    /\ Len(tasks[1]) = 3
    /\ tasks[1][1].pc = "done"
    /\ ~IsException(results[1][1])
    /\ results[1][1].scrape_success = "False"
    /\ tasks[1][2].pc = "loading"
    /\ tasks[1][3].pc = "loading"
    /\ sem[1] = 0

\* C30 (as claimed): every URL the tracker has reported as new was
\* returned to the pipeline or has no row in the tracker yet.
C30_NoNewUrlLost ==
    \A u \in reportedNew : u \in delivered \/ u \notin seenUrls

\* The run the claim names: more than MAX_NEW_ARTICLES new URLs found at
\* once on a first run whose every step succeeded.
C30_CapExceededOnFirstRun ==
    /\ runs = 1
    /\ Cardinality(reportedNew) = MaxShown
    /\ Cardinality(delivered) = MAX_NEW_ARTICLES
    /\ seenUrls = reportedNew

====
